---- MODULE Spec2Model ----
(***************************************************************************)
(* Model of WmRenderer (rust/wgpu-mc/src/lib.rs): the lazily created       *)
(* animated block buffer with its bind group                               *)
(* (upload_animated_block_buffer) and the chunk update queue drained by    *)
(* submit_chunk_updates.                                                   *)
(***************************************************************************)
EXTENDS Integers, Sequences, FiniteSets, TLC

(* ------------------------------ bounds -------------------------------- *)
\* longest Vec<f32> handed to upload_animated_block_buffer
MaxData == 3
\* number of upload_animated_block_buffer calls in one behaviour
MaxUploads == 3
\* number of messages sent on chunk_update_queue in one behaviour
MaxSends == 2
\* capacity of scene.chunk_buffer, in 4-byte elements
BufElems == 5

(* ------------------------- program constants -------------------------- *)
\* size_of::<f32>(): bytemuck::cast_slice(d) has d.len() * 4 bytes
ElemBytes == 4
\* BufferDescriptor.size is d.len() * 8
SizeFactor == 8
\* ranges are element offsets: write offset is start as u64 * 4
OffsetScale == 4

\* Option<T>: None is the empty sequence, Some(x) the one-element sequence
None == <<>>
Some(x) == <<x>>
Unwrap(o) == o[1]

UploadThreads == {"u1", "u2"}
RenderThread == "u1"

VARIABLES
    \* ---- MinecraftState: the two ArcSwap<Option<..>> fields
    animated_block_buffer,      \* None or Some(id of the published buffer)
    animated_block_bind_group,  \* None or Some([buf |-> id of the wrapped buffer])
    \* ---- the wgpu device: every buffer created so far, id -> size in bytes
    bufSize,
    \* ---- one upload_animated_block_buffer call per thread
    upc,        \* position of the thread inside the call
    d,          \* data.len() of the call in progress
    buf,        \* the local `buf` loaded at line 126
    newBuf,     \* the local animated_block_buffer created at line 129
    newBind,    \* the local animated_block_bind_group created at line 135
    prevBuf,    \* the buffer that was published when the call started
    uploads,    \* number of calls started so far
    animWrites, \* queue.write_buffer calls issued at line 155, in order
    \* ---- a render pass reading the published pair with two loads
    rdpc, rdBuf, rdBind,
    \* ---- chunk_update_queue: the mpsc channel and the Mutex over its Receiver
    queue,          \* messages sent and not yet received, oldest first
    sent,           \* number of messages sent so far (the next message's id - 1)
    receiverLock,   \* None or Some(thread holding chunk_update_queue.1)
    \* ---- scene.section_storage (an RwLock) and scene.chunk_buffer
    storageLock,    \* [writer |-> None or Some(thread), readers |-> set]
    storage,        \* position -> None or Some(Section)
    chunkWrites,    \* queue.write_buffer calls on chunk_buffer.buffer, in order
    dropped,        \* <<message id, slot>> that replace found no space for
    \* ---- one submit_chunk_updates invocation per thread
    spc,        \* position of the thread inside the invocation
    cur,        \* None or Some(the (pos, layers) message being applied)
    li,         \* the index i of the loop over section.layers, from 1
    call,       \* what the invocation has done so far (its number, counters)
    applied,    \* the messages given to replace, in order, with the caller
    \* ---- a draw submission holding the read lock of section_storage
    drawpc

animVars == <<animated_block_buffer, animated_block_bind_group, bufSize, upc, d,
              buf, newBuf, newBind, prevBuf, uploads, animWrites,
              rdpc, rdBuf, rdBind>>

chunkVars == <<queue, sent, receiverLock, storageLock, storage, chunkWrites,
               dropped, spc, cur, li, call, applied, drawpc>>

vars == <<animVars, chunkVars>>

(* ---------------------- upload_animated_block_buffer ------------------ *)

\* variant: the pair is created on every call
NeedsCreateAlways(b) == TRUE

\* variant: the test is inverted
NeedsCreateInverted(b) == b # None

\* line 128: buf.is_none()
NeedsCreate(b) == b = None

\* line 131: size of the created buffer, in bytes
CreatedSize(len) == len * SizeFactor

\* line 158: bytemuck::cast_slice(d).len()
DataBytes(len) == len * ElemBytes

\* lines 123-126: the call starts and loads the published buffer
UploadLoad(t, threads) ==
    /\ t \in threads
    /\ upc[t] = "idle"
    /\ uploads < MaxUploads
    /\ \E len \in 0..MaxData :
          d' = [d EXCEPT ![t] = len]
    /\ buf' = [buf EXCEPT ![t] = animated_block_buffer]
    /\ prevBuf' = [prevBuf EXCEPT ![t] = animated_block_buffer]
    /\ uploads' = uploads + 1
    /\ upc' = [upc EXCEPT ![t] = "check"]
    /\ UNCHANGED <<animated_block_buffer, animated_block_bind_group, bufSize,
                   newBuf, newBind, animWrites, rdpc, rdBuf, rdBind, chunkVars>>

\* line 128, the branch not taken: the resource was present
UploadSkipCreate(t) ==
    /\ upc[t] = "check"
    /\ ~NeedsCreate(buf[t])
    /\ upc' = [upc EXCEPT ![t] = "write"]
    /\ UNCHANGED <<animated_block_buffer, animated_block_bind_group, bufSize, d,
                   buf, newBuf, newBind, prevBuf, uploads, animWrites,
                   rdpc, rdBuf, rdBind, chunkVars>>

\* lines 129-134: device.create_buffer
UploadCreateBuffer(t) ==
    /\ upc[t] = "check"
    /\ NeedsCreate(buf[t])
    /\ LET id == Len(bufSize) + 1 IN
          /\ bufSize' = Append(bufSize, CreatedSize(d[t]))
          /\ newBuf' = [newBuf EXCEPT ![t] = Some(id)]
    /\ upc' = [upc EXCEPT ![t] = "bind"]
    /\ UNCHANGED <<animated_block_buffer, animated_block_bind_group, d, buf,
                   newBind, prevBuf, uploads, animWrites, rdpc, rdBuf, rdBind, chunkVars>>

\* variant: the bind group is built over another buffer than the one published
UploadCreateBindGroupStale(t) ==
    /\ upc[t] = "bind"
    /\ newBind' = [newBind EXCEPT ![t] = Some([buf |-> Unwrap(newBuf[t]) + 1])]
    /\ upc' = [upc EXCEPT ![t] = "storeBuf"]
    /\ UNCHANGED <<animated_block_buffer, animated_block_bind_group, bufSize, d,
                   buf, newBuf, prevBuf, uploads, animWrites, rdpc, rdBuf, rdBind, chunkVars>>

\* lines 135-145: device.create_bind_group over the buffer just created
UploadCreateBindGroup(t) ==
    /\ upc[t] = "bind"
    /\ newBind' = [newBind EXCEPT ![t] = Some([buf |-> Unwrap(newBuf[t])])]
    /\ upc' = [upc EXCEPT ![t] = "storeBuf"]
    /\ UNCHANGED <<animated_block_buffer, animated_block_bind_group, bufSize, d,
                   buf, newBuf, prevBuf, uploads, animWrites, rdpc, rdBuf, rdBind, chunkVars>>

\* lines 147-149: animated_block_buffer.store(..)
UploadStoreBuffer(t) ==
    /\ upc[t] = "storeBuf"
    /\ animated_block_buffer' = newBuf[t]
    /\ upc' = [upc EXCEPT ![t] = "storeBind"]
    /\ UNCHANGED <<animated_block_bind_group, bufSize, d, buf, newBuf, newBind,
                   prevBuf, uploads, animWrites, rdpc, rdBuf, rdBind, chunkVars>>

\* variant: the bind group is never published
UploadStoreBindGroupSkipped(t) ==
    /\ upc[t] = "storeBind"
    /\ upc' = [upc EXCEPT ![t] = "write"]
    /\ UNCHANGED <<animated_block_buffer, animated_block_bind_group, bufSize, d,
                   buf, newBuf, newBind, prevBuf, uploads, animWrites, rdpc,
                   rdBuf, rdBind, chunkVars>>

\* lines 150-152: animated_block_bind_group.store(..)
UploadStoreBindGroup(t) ==
    /\ upc[t] = "storeBind"
    /\ animated_block_bind_group' = newBind[t]
    /\ upc' = [upc EXCEPT ![t] = "write"]
    /\ UNCHANGED <<animated_block_buffer, bufSize, d, buf, newBuf, newBind,
                   prevBuf, uploads, animWrites, rdpc, rdBuf, rdBind, chunkVars>>

\* lines 155-159: reload the published buffer, unwrap it and write the whole
\* data at offset 0.  wgpu rejects a write that overruns the buffer: the
\* validation error reaches the default handler, which panics.
UploadWrite(t) ==
    /\ upc[t] = "write"
    /\ LET target == animated_block_buffer
           cap == IF target = None THEN 0 ELSE bufSize[Unwrap(target)]
           w == [thread |-> t, buf |-> target, prev |-> prevBuf[t], offset |-> 0,
                 len |-> d[t], bytes |-> DataBytes(d[t]), cap |-> cap]
       IN  /\ animWrites' = Append(animWrites, w)
           /\ upc' = [upc EXCEPT ![t] =
                         IF target = None \/ w.bytes > cap THEN "panicked"
                                                            ELSE "idle"]
    /\ UNCHANGED <<animated_block_buffer, animated_block_bind_group, bufSize, d,
                   buf, newBuf, newBind, prevBuf, uploads, rdpc, rdBuf, rdBind, chunkVars>>

\* a render pass loads the buffer field ...
ReadBuffer ==
    /\ rdpc = "idle"
    /\ rdBuf' = animated_block_buffer
    /\ rdBind' = None
    /\ rdpc' = "loadedBuf"
    /\ UNCHANGED <<animated_block_buffer, animated_block_bind_group, bufSize, upc,
                   d, buf, newBuf, newBind, prevBuf, uploads, animWrites, chunkVars>>

\* ... and then the bind group field
ReadBindGroup ==
    /\ rdpc = "loadedBuf"
    /\ rdBind' = animated_block_bind_group
    /\ rdpc' = "idle"
    /\ UNCHANGED <<animated_block_buffer, animated_block_bind_group, bufSize, upc,
                   d, buf, newBuf, newBind, prevBuf, uploads, animWrites, rdBuf,
                   chunkVars>>

(* ------------------ chunk_update_queue and its producers -------------- *)

SubmitThreads == {"r1", "r2"}
ApplierThread == "r1"
Producers == {"w1", "w2"}
MeshingThread == "w1"
\* IVec3 chunk positions
Positions == {"pA", "pB"}
\* number of layer slots of a Section
LayerCount == 2

\* Vec<BakedLayer> values the meshing workers send; vertices and indices are
\* listed in 4-byte elements
Payloads ==
    { << [vertices |-> <<11>>, indices |-> <<0>>] >>,
      << [vertices |-> <<21, 22>>, indices |-> <<0>>],
         [vertices |-> <<31>>, indices |-> <<1>>] >>,
      << [vertices |-> <<>>, indices |-> <<>>],
         [vertices |-> <<41>>, indices |-> <<2>>] >> }

\* whether an invocation of submit_chunk_updates is draining the channel
DrainInProgress == receiverLock # None

\* variant: a channel that hands out the newest message first
SendFront(p, producers) ==
    /\ p \in producers
    /\ sent < MaxSends
    /\ \E pos \in Positions, layers \in Payloads :
          queue' = <<[id |-> sent + 1, prod |-> p, pos |-> pos, layers |-> layers,
                      during |-> DrainInProgress]>> \o queue
    /\ sent' = sent + 1
    /\ UNCHANGED <<animVars, receiverLock, storageLock, storage, chunkWrites,
                   dropped, spc, cur, li, call, applied, drawpc>>

\* Sender::send((pos, layers)): the channel is unbounded, send never blocks
Send(p, producers) ==
    /\ p \in producers
    /\ sent < MaxSends
    /\ \E pos \in Positions, layers \in Payloads :
          queue' = Append(queue, [id |-> sent + 1, prod |-> p, pos |-> pos,
                                  layers |-> layers, during |-> DrainInProgress])
    /\ sent' = sent + 1
    /\ UNCHANGED <<animVars, receiverLock, storageLock, storage, chunkWrites,
                   dropped, spc, cur, li, call, applied, drawpc>>

(* ------------------------ SectionStorage::replace --------------------- *)

Elems(r) == r.start .. (r.end - 1)

\* the elements of the chunk buffer owned by the live ranges of `st`
Occupied(st) ==
    UNION { Elems(Unwrap(Unwrap(st[pos]).layers[i]).vertex_range)
              \cup Elems(Unwrap(Unwrap(st[pos]).layers[i]).index_range) :
            <<pos, i>> \in { pi \in Positions \X (1..LayerCount) :
                               /\ st[pi[1]] # None
                               /\ Unwrap(st[pi[1]]).layers[pi[2]] # None } }

\* whether the n elements from s on are free
IsFree(occ, s, n) == (s .. (s + n - 1)) \cap occ = {}

\* first fit: the lowest free span of n elements, None when there is none
FirstFit(occ, n) ==
    IF \E s \in 0..(BufElems - n) : IsFree(occ, s, n)
    THEN LET s == CHOOSE x \in 0..(BufElems - n) :
                      /\ IsFree(occ, x, n)
                      /\ \A y \in 0..(x - 1) : ~IsFree(occ, y, n)
         IN  Some([start |-> s, end |-> s + n])
    ELSE None

IsEmptyLayer(l) == Len(l.vertices) = 0 \/ Len(l.indices) = 0

\* the allocation state once slot i has its vertex range v and index range x
\* (None: no space)
WithRanges(prev, i, v, x) ==
    IF v = None \/ x = None
    THEN [prev EXCEPT !.slots = Append(@, None), !.lost = @ \cup {i}]
    ELSE [occ |-> prev.occ \cup Elems(Unwrap(v)) \cup Elems(Unwrap(x)),
          slots |-> Append(prev.slots, Some([vertex_range |-> Unwrap(v),
                                             index_range |-> Unwrap(x)])),
          lost |-> prev.lost]

\* the index range of slot i, allocated after its vertex range v
WithVertexRange(prev, layer, i, v) ==
    IF v = None THEN WithRanges(prev, i, None, None)
    ELSE CHOOSE r \in { WithRanges(prev, i, v, x) :
                        x \in { FirstFit(prev.occ \cup Elems(Unwrap(v)),
                                         Len(layer.indices)) } } : TRUE

\* slot i of the new Section, given the allocation state after slot i - 1:
\* the elements in use, the slots so far, the slots left without space
AllocLayer(prev, layers, i) ==
    IF i > Len(layers) \/ IsEmptyLayer(layers[i])
    THEN [prev EXCEPT !.slots = Append(@, None)]
    ELSE CHOOSE r \in { WithVertexRange(prev, layers[i], i, v) :
                        v \in { FirstFit(prev.occ, Len(layers[i].vertices)) } } : TRUE

\* the slots of the new Section, slot by slot
RECURSIVE AllocLayers(_, _, _)
AllocLayers(state, layers, i) ==
    IF i > LayerCount THEN state
    ELSE CHOOSE r \in { AllocLayers(next, layers, i + 1) :
                        next \in { AllocLayer(state, layers, i) } } : TRUE

\* replace(pos, layers): the ranges of the old Section of pos are released, the
\* new ones allocated, and the new Section installed for pos
ReplaceResult(st, m) ==
    LET freed == [st EXCEPT ![m.pos] = None]
        a == AllocLayers([occ |-> Occupied(freed), slots |-> <<>>, lost |-> {}],
                         m.layers, 1)
    IN  [storage |-> [st EXCEPT ![m.pos] = Some([src |-> m.id, layers |-> a.slots])],
         lost |-> a.lost]

(* ------------------------- submit_chunk_updates ----------------------- *)

\* line 162: fn submit_chunk_updates(&self, scene: &Scene) returns ()
SubmitResult == "unit"

NoCall == [startLen |-> 0, received |-> 0, tookLock |-> FALSE,
           storage0 |-> [p \in Positions |-> None], writes0 |-> 0,
           result |-> "running"]

\* line 162: the invocation starts and asks for the receiver mutex
SubmitCall(t, threads) ==
    /\ t \in threads
    /\ spc[t] = "idle"
    /\ spc' = [spc EXCEPT ![t] = "lockReceiver"]
    /\ UNCHANGED <<animVars, queue, sent, receiverLock, storageLock, storage,
                   chunkWrites, dropped, cur, li, call, applied, drawpc>>

\* variant: the storage write lock is taken once, before the drain
SubmitLockTakesStorage(t) ==
    /\ spc[t] = "lockReceiver"
    /\ receiverLock = None
    /\ storageLock.writer = None
    /\ storageLock.readers = {}
    /\ receiverLock' = Some(t)
    /\ storageLock' = [storageLock EXCEPT !.writer = Some(t)]
    /\ call' = [call EXCEPT ![t] =
                   [startLen |-> Len(queue), received |-> 0,
                    tookLock |-> TRUE, storage0 |-> storage,
                    writes0 |-> Len(chunkWrites), result |-> "running"]]
    /\ spc' = [spc EXCEPT ![t] = "drain"]
    /\ UNCHANGED <<animVars, queue, sent, storage, chunkWrites,
                   dropped, cur, li, applied, drawpc>>

\* variant: the receiver is taken without waiting for the mutex
SubmitLockNoMutex(t) ==
    /\ spc[t] = "lockReceiver"
    /\ receiverLock' = Some(t)
    /\ call' = [call EXCEPT ![t] =
                   [startLen |-> Len(queue), received |-> 0,
                    tookLock |-> FALSE, storage0 |-> storage,
                    writes0 |-> Len(chunkWrites), result |-> "running"]]
    /\ spc' = [spc EXCEPT ![t] = "drain"]
    /\ UNCHANGED <<animVars, queue, sent, storageLock, storage, chunkWrites,
                   dropped, cur, li, applied, drawpc>>

\* lines 163-164: chunk_update_queue.1.lock(), then receiver.try_iter()
SubmitLock(t) ==
    /\ spc[t] = "lockReceiver"
    /\ receiverLock = None
    /\ receiverLock' = Some(t)
    /\ call' = [call EXCEPT ![t] =
                   [startLen |-> Len(queue), received |-> 0,
                    tookLock |-> FALSE, storage0 |-> storage,
                    writes0 |-> Len(chunkWrites), result |-> "running"]]
    /\ spc' = [spc EXCEPT ![t] = "drain"]
    /\ UNCHANGED <<animVars, queue, sent, storageLock, storage, chunkWrites,
                   dropped, cur, li, applied, drawpc>>

\* which message try_recv takes, and what it leaves in the channel
Received(q) == Head(q)
\* variant: a receive that also discards the message behind the one it takes
RemainingSkipsOne(q) == IF Len(q) > 1 THEN Tail(Tail(q)) ELSE Tail(q)
Remaining(q) == Tail(q)

\* whether try_recv finds a message: TryIter ends at the first Err(Empty)
MoreToReceive(q) == q # <<>>

\* line 166: TryIter::next, try_recv returned a message
TryRecv(t) ==
    /\ spc[t] = "drain"
    /\ MoreToReceive(queue)
    /\ cur' = [cur EXCEPT ![t] = Some(Received(queue))]
    /\ queue' = Remaining(queue)
    /\ call' = [call EXCEPT ![t].received = @ + 1]
    /\ spc' = [spc EXCEPT ![t] = "lockStorage"]
    /\ UNCHANGED <<animVars, sent, receiverLock, storageLock, storage,
                   chunkWrites, dropped, li, applied, drawpc>>

\* line 166: TryIter::next, try_recv returned Err(Empty): for_each ends
TryRecvEmpty(t) ==
    /\ spc[t] = "drain"
    /\ ~MoreToReceive(queue)
    /\ call' = [call EXCEPT ![t].result = SubmitResult]
    /\ spc' = [spc EXCEPT ![t] = "done"]
    /\ UNCHANGED <<animVars, queue, sent, receiverLock, storageLock, storage,
                   chunkWrites, dropped, cur, li, applied, drawpc>>

\* line 167: scene.section_storage.write()
LockStorage(t) ==
    /\ spc[t] = "lockStorage"
    /\ storageLock.writer = None
    /\ storageLock.readers = {}
    /\ storageLock' = [storageLock EXCEPT !.writer = Some(t)]
    /\ call' = [call EXCEPT ![t].tookLock = TRUE]
    /\ spc' = [spc EXCEPT ![t] = "replace"]
    /\ UNCHANGED <<animVars, queue, sent, receiverLock, storage, chunkWrites,
                   dropped, cur, li, applied, drawpc>>

\* variant: the write guard is a temporary dropped at the end of the statement
ReplaceUnlocks(t) ==
    /\ spc[t] = "replace"
    /\ LET m == Unwrap(cur[t])
           r == ReplaceResult(storage, m)
       IN  /\ storage' = r.storage
           /\ dropped' = dropped \cup { <<m.id, i>> : i \in r.lost }
           /\ applied' = Append(applied, [id |-> m.id, pos |-> m.pos,
                                        during |-> m.during,
                                        prod |-> m.prod, by |-> t])
    /\ storageLock' = [storageLock EXCEPT !.writer = None]
    /\ li' = [li EXCEPT ![t] = 1]
    /\ spc' = [spc EXCEPT ![t] = "write"]
    /\ UNCHANGED <<animVars, queue, sent, receiverLock, chunkWrites,
                   cur, call, drawpc>>

\* line 168: storage.replace(pos, &layers)
Replace(t) ==
    /\ spc[t] = "replace"
    /\ LET m == Unwrap(cur[t])
           r == ReplaceResult(storage, m)
       IN  /\ storage' = r.storage
           /\ dropped' = dropped \cup { <<m.id, i>> : i \in r.lost }
           /\ applied' = Append(applied, [id |-> m.id, pos |-> m.pos,
                                        during |-> m.during,
                                        prod |-> m.prod, by |-> t])
    /\ li' = [li EXCEPT ![t] = 1]
    /\ spc' = [spc EXCEPT ![t] = "write"]
    /\ UNCHANGED <<animVars, queue, sent, receiverLock, storageLock, chunkWrites,
                   cur, call, drawpc>>

\* the Section that replace returned: a borrow of the entry of `storage`
SectionOf(t) == Unwrap(storage[Unwrap(cur[t]).pos])

\* variant: the two start offsets are exchanged
LayerWritesSwapped(m, i, ranges) ==
    << [msg |-> m.id, slot |-> i, kind |-> "vertices",
        offset |-> ranges.index_range.start * OffsetScale,
        data |-> m.layers[i].vertices],
       [msg |-> m.id, slot |-> i, kind |-> "indices",
        offset |-> ranges.vertex_range.start * OffsetScale,
        data |-> m.layers[i].indices] >>

\* lines 171-180: the two write_buffer calls of a slot that holds ranges
LayerWrites(m, i, ranges) ==
    << [msg |-> m.id, slot |-> i, kind |-> "vertices",
        offset |-> ranges.vertex_range.start * OffsetScale,
        data |-> m.layers[i].vertices],
       [msg |-> m.id, slot |-> i, kind |-> "indices",
        offset |-> ranges.index_range.start * OffsetScale,
        data |-> m.layers[i].indices] >>

\* lines 169-182: one iteration of the loop over section.layers
WriteLayer(t) ==
    /\ spc[t] = "write"
    /\ li[t] <= Len(SectionOf(t).layers)
    /\ LET m == Unwrap(cur[t])
           slot == SectionOf(t).layers[li[t]]
       IN  IF slot = None
           THEN /\ chunkWrites' = chunkWrites
                /\ spc' = spc
           ELSE IF li[t] > Len(m.layers)
           THEN \* layers[i] indexes past the end of the Vec: panic
                /\ chunkWrites' = chunkWrites
                /\ spc' = [spc EXCEPT ![t] = "panicked"]
           ELSE /\ chunkWrites' = chunkWrites \o LayerWrites(m, li[t], Unwrap(slot))
                /\ spc' = spc
    /\ li' = [li EXCEPT ![t] = @ + 1]
    /\ UNCHANGED <<animVars, queue, sent, receiverLock, storageLock, storage,
                   dropped, cur, call, applied, drawpc>>

\* variant: the write guard outlives the closure
EndUpdateKeepsLock(t) ==
    /\ spc[t] = "write"
    /\ li[t] > Len(SectionOf(t).layers)
    /\ cur' = [cur EXCEPT ![t] = None]
    /\ spc' = [spc EXCEPT ![t] = "drain"]
    /\ UNCHANGED <<animVars, queue, sent, receiverLock, storageLock, storage,
                   chunkWrites, dropped, li, call, applied, drawpc>>

\* line 183: the closure returns, `storage` (the write guard) is dropped
EndUpdate(t) ==
    /\ spc[t] = "write"
    /\ li[t] > Len(SectionOf(t).layers)
    /\ storageLock' = [storageLock EXCEPT !.writer = None]
    /\ cur' = [cur EXCEPT ![t] = None]
    /\ spc' = [spc EXCEPT ![t] = "drain"]
    /\ UNCHANGED <<animVars, queue, sent, receiverLock, storage, chunkWrites,
                   dropped, li, call, applied, drawpc>>

\* line 184: the function returns, `receiver` (the mutex guard) is dropped;
\* what is still in the channel now waits for the next invocation
SubmitReturn(t) ==
    /\ spc[t] = "done"
    /\ receiverLock' = None
    /\ queue' = [k \in DOMAIN queue |-> [queue[k] EXCEPT !.during = FALSE]]
    /\ call' = [call EXCEPT ![t] = NoCall]
    /\ spc' = [spc EXCEPT ![t] = "idle"]
    /\ UNCHANGED <<animVars, sent, storageLock, storage, chunkWrites,
                   dropped, cur, li, applied, drawpc>>

(* ------------------- a reader of scene.section_storage ---------------- *)

\* section_storage.read(): parking_lot's RwLock is task-fair, a reader waits
\* while a writer holds the lock or waits for it
DrawLock ==
    /\ drawpc = "idle"
    /\ storageLock.writer = None
    /\ \A t \in SubmitThreads : spc[t] # "lockStorage"
    /\ storageLock' = [storageLock EXCEPT !.readers = @ \cup {"draw"}]
    /\ drawpc' = "reading"
    /\ UNCHANGED <<animVars, queue, sent, receiverLock, storage, chunkWrites,
                   dropped, spc, cur, li, call, applied>>

DrawUnlock ==
    /\ drawpc = "reading"
    /\ storageLock' = [storageLock EXCEPT !.readers = @ \ {"draw"}]
    /\ drawpc' = "idle"
    /\ UNCHANGED <<animVars, queue, sent, receiverLock, storage, chunkWrites,
                   dropped, spc, cur, li, call, applied>>

(* ----------------------------- the system ----------------------------- *)

AnimInit ==
    /\ animated_block_buffer = None
    /\ animated_block_bind_group = None
    /\ bufSize = <<>>
    /\ upc = [t \in UploadThreads |-> "idle"]
    /\ d = [t \in UploadThreads |-> 0]
    /\ buf = [t \in UploadThreads |-> None]
    /\ newBuf = [t \in UploadThreads |-> None]
    /\ newBind = [t \in UploadThreads |-> None]
    /\ prevBuf = [t \in UploadThreads |-> None]
    /\ uploads = 0
    /\ animWrites = <<>>
    /\ rdpc = "idle"
    /\ rdBuf = None
    /\ rdBind = None

\* WmRenderer::new: the channel is empty, nothing holds a lock
ChunkInit ==
    /\ queue = <<>>
    /\ sent = 0
    /\ receiverLock = None
    /\ storageLock = [writer |-> None, readers |-> {}]
    /\ storage = [p \in Positions |-> None]
    /\ chunkWrites = <<>>
    /\ dropped = {}
    /\ spc = [t \in SubmitThreads |-> "idle"]
    /\ cur = [t \in SubmitThreads |-> None]
    /\ li = [t \in SubmitThreads |-> 1]
    /\ call = [t \in SubmitThreads |-> NoCall]
    /\ applied = <<>>
    /\ drawpc = "idle"

UploadStep(t) ==
    \/ UploadSkipCreate(t)
    \/ UploadCreateBuffer(t)
    \/ UploadCreateBindGroup(t)
    \/ UploadStoreBuffer(t)
    \/ UploadStoreBindGroup(t)
    \/ UploadWrite(t)

SubmitStep(t) ==
    \/ SubmitLock(t)
    \/ TryRecv(t)
    \/ TryRecvEmpty(t)
    \/ LockStorage(t)
    \/ Replace(t)
    \/ WriteLayer(t)
    \/ EndUpdate(t)
    \/ SubmitReturn(t)

Init == AnimInit /\ ChunkInit

\* upload_animated_block_buffer called from any thread
AnimNext ==
    \/ \E t \in UploadThreads : UploadLoad(t, UploadThreads)
    \/ \E t \in UploadThreads : UploadStep(t)
    \/ ReadBuffer
    \/ ReadBindGroup

\* upload_animated_block_buffer called from the render thread only
AnimNextSingle ==
    \/ \E t \in UploadThreads : UploadLoad(t, {RenderThread})
    \/ \E t \in UploadThreads : UploadStep(t)
    \/ ReadBuffer
    \/ ReadBindGroup

\* one meshing worker, submit_chunk_updates called from the render thread
\* only, and a draw submission
ChunkNext ==
    \/ \E p \in Producers : Send(p, {MeshingThread})
    \/ \E t \in SubmitThreads : SubmitCall(t, {ApplierThread})
    \/ \E t \in SubmitThreads : SubmitStep(t)
    \/ DrawLock
    \/ DrawUnlock

\* several meshing workers, submit_chunk_updates called from any thread
ChunkNextMulti ==
    \/ \E p \in Producers : Send(p, Producers)
    \/ \E t \in SubmitThreads : SubmitCall(t, SubmitThreads)
    \/ \E t \in SubmitThreads : SubmitStep(t)
    \/ DrawLock
    \/ DrawUnlock

SpecAnimated == Init /\ [][AnimNext]_vars
SpecAnimatedSingle == Init /\ [][AnimNextSingle]_vars
SpecChunk == Init /\ [][ChunkNext]_vars
SpecChunkMulti == Init /\ [][ChunkNextMulti]_vars

\* the render thread keeps calling submit_chunk_updates and runs each call on,
\* and the draw submission releases the read lock it took
ApplierRuns ==
    \/ SubmitCall(ApplierThread, {ApplierThread})
    \/ SubmitStep(ApplierThread)

SpecChunkFair ==
    /\ Init
    /\ [][ChunkNext]_vars
    /\ WF_vars(ApplierRuns)
    /\ WF_vars(DrawUnlock)

\* the steps of an invocation that wait for nothing but the scheduler, and
\* line 167, which waits for the readers to leave
SubmitRuns(t) ==
    \/ TryRecv(t)
    \/ TryRecvEmpty(t)
    \/ LockStorage(t)
    \/ Replace(t)
    \/ WriteLayer(t)
    \/ EndUpdate(t)
    \/ SubmitReturn(t)

\* every thread that has called submit_chunk_updates keeps running; the
\* receiver mutex (parking_lot::Mutex, eventually fair) is not withheld for ever
\* from a thread waiting at line 163; a reader releases its read lock
SpecChunkMultiFair ==
    /\ Init
    /\ [][ChunkNextMulti]_vars
    /\ \A t \in SubmitThreads : SF_vars(SubmitLock(t)) /\ WF_vars(SubmitRuns(t))
    /\ WF_vars(DrawUnlock)

(* ------------------- claims: the animated block buffer ---------------- *)

\* C1: the buffer and the bind group become visible together: in no state is
\* exactly one of animated_block_buffer / animated_block_bind_group present
C1_PublishedTogether ==
    (animated_block_buffer = None) <=> (animated_block_bind_group = None)

\* C2: a call whose data is larger than the published buffer publishes a new
\* buffer that holds the data, and no write is longer than the buffer it targets
C2_RecreatedWhenTooSmall ==
    \A k \in DOMAIN animWrites :
        LET w == animWrites[k] IN
        w.buf # None =>
            /\ w.bytes <= w.cap
            /\ (w.prev # None /\ w.bytes > bufSize[Unwrap(w.prev)]) => w.buf # w.prev

\* C3: with every call made from one thread, a published bind group wraps
\* exactly the published buffer, and between calls the two fields are present
\* or absent together
C3_BindingWrapsBuffer ==
    /\ animated_block_bind_group # None =>
          animated_block_buffer = Some(Unwrap(animated_block_bind_group).buf)
    /\ (\A t \in UploadThreads : upc[t] \in {"idle", "panicked"}) =>
          C1_PublishedTogether

\* C3 witness: the pair is published and a later call has reused it
C3_Witness ==
    /\ animated_block_bind_group # None
    /\ animated_block_buffer # None
    /\ uploads >= 2
    /\ Len(animWrites) >= 2
    /\ upc[RenderThread] = "idle"
(* ---------------------- claims: the chunk update queue ---------------- *)

AppliedIds == { applied[k].id : k \in DOMAIN applied }
QueuedIds == { queue[k].id : k \in DOMAIN queue }
InHandIds == { Unwrap(cur[t]).id : t \in { x \in SubmitThreads : cur[x] # None } }

\* the two writes of slot i of the Section installed for pos have been issued
SlotWritten(pos, i) ==
    LET sec == Unwrap(storage[pos])
        r == Unwrap(sec.layers[i])
    IN  /\ \E k \in DOMAIN chunkWrites :
              /\ chunkWrites[k].msg = sec.src
              /\ chunkWrites[k].slot = i
              /\ chunkWrites[k].kind = "vertices"
              /\ chunkWrites[k].offset = r.vertex_range.start * OffsetScale
        /\ \E k \in DOMAIN chunkWrites :
              /\ chunkWrites[k].msg = sec.src
              /\ chunkWrites[k].slot = i
              /\ chunkWrites[k].kind = "indices"
              /\ chunkWrites[k].offset = r.index_range.start * OffsetScale

PresentSlots ==
    { pi \in Positions \X (1..LayerCount) :
        /\ storage[pi[1]] # None
        /\ Unwrap(storage[pi[1]]).layers[pi[2]] # None }

\* C4: the messages of a single producer are applied (replace, then the
\* writes) in the order they were enqueued, and the Section installed for a
\* position is the one of the latest message applied for it
C4_AppliedInEnqueueOrder ==
    /\ \A k \in DOMAIN applied : applied[k].id = k
    /\ \A j, k \in DOMAIN chunkWrites :
          j < k => chunkWrites[j].msg <= chunkWrites[k].msg
    /\ \A pos \in Positions :
          LET ks == { k \in DOMAIN applied : applied[k].pos = pos } IN
          IF ks = {} THEN storage[pos] = None
          ELSE /\ storage[pos] # None
               /\ Unwrap(storage[pos]).src =
                     applied[CHOOSE k \in ks : \A j \in ks : j <= k].id

\* C4 witness: one drain has applied two updates of the same position
C4_Witness ==
    /\ spc[ApplierThread] = "done"
    /\ call[ApplierThread].received >= 2
    /\ \E j, k \in DOMAIN applied :
          /\ j < k
          /\ applied[j].pos = applied[k].pos
          /\ Unwrap(storage[applied[k].pos]).src = applied[k].id
          /\ k = Len(applied)
          /\ j > Len(applied) - call[ApplierThread].received

\* C5: a message sent on the channel stays in it, in order, until it is
\* received, and every message sent is eventually applied: again and again
\* everything sent so far has been applied
C5_NoUpdateLost ==
    /\ [](/\ AppliedIds \cup InHandIds \cup QueuedIds = 1..sent
          /\ \A j, k \in DOMAIN queue : j < k => queue[j].id < queue[k].id
          /\ \A k \in DOMAIN applied : applied[k].id \notin QueuedIds)
    /\ []<>(AppliedIds = 1..sent)

\* C5 witness: every message that could be sent has been sent and applied,
\* one of them after waiting in the channel for an invocation to start
C5_Witness ==
    /\ sent = MaxSends
    /\ AppliedIds = 1..MaxSends
    /\ \E k \in DOMAIN applied : ~applied[k].during

\* C6: an invocation applies only what was in the channel when its drain
\* started, never a message enqueued while the drain was in progress
C6_OnlyStartBatchApplied ==
    \A k \in DOMAIN applied : ~applied[k].during

\* C7: while the write lock of section_storage is not held, both writes of
\* every present slot of every installed Section have been issued
C7_ReaderSeesWrittenSections ==
    storageLock.writer = None =>
        \A pi \in PresentSlots : SlotWritten(pi[1], pi[2])

\* C7 witness: the draw submission reads a storage that holds ranges
C7_Witness ==
    /\ drawpc = "reading"
    /\ PresentSlots # {}

\* C8: an invocation that received nothing has left section storage and the
\* chunk buffer alone and never took the write lock, and an invocation that
\* finds the channel empty can return at once
C8_EmptyDrainDoesNothing ==
    \A t \in SubmitThreads :
        /\ (spc[t] = "done" /\ call[t].received = 0) =>
              /\ storage = call[t].storage0
              /\ Len(chunkWrites) = call[t].writes0
              /\ ~call[t].tookLock
        /\ (spc[t] = "drain" /\ queue = <<>>) => ENABLED TryRecvEmpty(t)

\* C8 witness: an invocation found the channel empty; storage is not empty
C8_Witness ==
    /\ spc[ApplierThread] = "done"
    /\ call[ApplierThread].received = 0
    /\ PresentSlots # {}

\* C9: an invocation ends after the messages queued at its start: it never
\* receives more messages than the channel held when the drain started
C9_EndsAfterStartBatch ==
    \A t \in SubmitThreads : call[t].received <= call[t].startLen

\* C10: an invocation during which replace found no space for an update
\* returns an error to its caller, and no write is issued for that update
C10_ExhaustionReported ==
    /\ \A t \in SubmitThreads :
          (/\ spc[t] = "done"
           /\ \E k \in DOMAIN applied :
                 /\ k > Len(applied) - call[t].received
                 /\ \E i \in 1..LayerCount : <<applied[k].id, i>> \in dropped)
          => call[t].result = "error"
    /\ \A k \in DOMAIN chunkWrites :
          <<chunkWrites[k].msg, chunkWrites[k].slot>> \notin dropped
(* ------------- claims: concurrent uploads, sizes, life cycle ---------- *)

UploadsAtRest == \A t \in UploadThreads : upc[t] \in {"idle", "panicked"}

\* C11: after concurrent calls on an absent resource have completed, the
\* published bind group wraps the published buffer: both come from one call
C11_PairFromOneCall ==
    (UploadsAtRest /\ animated_block_bind_group # None) =>
        animated_block_buffer = Some(Unwrap(animated_block_bind_group).buf)
(* ---------------- claims: the writes of submit_chunk_updates ---------- *)

\* the places in chunkWrites of the writes issued for slot i of message id
WritesFor(id, i) ==
    { k \in DOMAIN chunkWrites :
        chunkWrites[k].msg = id /\ chunkWrites[k].slot = i }

\* C12: for the message being applied, every slot the loop has passed that
\* holds ranges got exactly two writes, layers[i].vertices at
\* vertex_range.start * 4 and then layers[i].indices at index_range.start * 4,
\* and every other slot got none
C12_TwoWritesPerPresentSlot ==
    \A t \in SubmitThreads :
        spc[t] = "write" =>
            LET m == Unwrap(cur[t])
                sec == SectionOf(t)
            IN  \A i \in 1..Len(sec.layers) :
                    IF i < li[t] /\ sec.layers[i] # None
                    THEN /\ Cardinality(WritesFor(m.id, i)) = 2
                         /\ \E k \in WritesFor(m.id, i) :
                               /\ k + 1 \in WritesFor(m.id, i)
                               /\ chunkWrites[k] =
                                     [msg |-> m.id, slot |-> i, kind |-> "vertices",
                                      offset |-> Unwrap(sec.layers[i]).vertex_range.start * 4,
                                      data |-> m.layers[i].vertices]
                               /\ chunkWrites[k + 1] =
                                     [msg |-> m.id, slot |-> i, kind |-> "indices",
                                      offset |-> Unwrap(sec.layers[i]).index_range.start * 4,
                                      data |-> m.layers[i].indices]
                    ELSE WritesFor(m.id, i) = {}

\* C12 witness: the loop is over for a Section with one slot without ranges
\* and one slot with ranges that do not start at offset 0
C12_Witness ==
    \E t \in SubmitThreads :
        /\ spc[t] = "write"
        /\ li[t] > Len(SectionOf(t).layers)
        /\ \E i, j \in 1..Len(SectionOf(t).layers) :
              /\ SectionOf(t).layers[i] = None
              /\ SectionOf(t).layers[j] # None
              /\ Unwrap(SectionOf(t).layers[j]).vertex_range.start > 0
\* the upload call of thread t is between its load and its write
UploadInProgress(t) == upc[t] \notin {"idle", "panicked"}

\* C13: a call that finds a published buffer creates nothing and leaves the
\* published pair as it was; every call issues exactly one write, of its whole
\* data at offset 0, into the published buffer: the one found, or the one the
\* call has just created
C13_ReuseAndSingleFullWrite ==
    /\ \A t \in UploadThreads :
          (UploadInProgress(t) /\ prevBuf[t] # None) =>
              /\ animated_block_buffer = prevBuf[t]
              /\ animated_block_bind_group = Some([buf |-> Unwrap(prevBuf[t])])
              /\ Len(bufSize) = 1
    /\ Len(animWrites) + Cardinality({ t \in UploadThreads : UploadInProgress(t) })
          = uploads
    /\ \A k \in DOMAIN animWrites :
          LET w == animWrites[k] IN
          /\ w.offset = 0
          /\ w.bytes = w.len * 4
          /\ w.buf = animated_block_buffer
          /\ w.buf # None
          /\ w.prev # None => w.buf = w.prev
          /\ w.prev = None => w.buf = Some(Len(bufSize))

\* C13 witness: a creating call and then a call that fits the buffer it found
C13_Witness ==
    /\ Len(animWrites) >= 2
    /\ animWrites[1].prev = None
    /\ animWrites[2].prev # None
    /\ animWrites[2].len > 0
    /\ animWrites[2].bytes <= animWrites[2].cap
    /\ upc[RenderThread] = "idle"
\* C14: the buffer a creating call has just created has exactly the byte
\* length of the data the call goes on to write
C14_CreatedSizeIsDataLength ==
    \A t \in UploadThreads :
        (upc[t] \in {"bind", "storeBuf", "storeBind"} /\ newBuf[t] # None) =>
            bufSize[Unwrap(newBuf[t])] = d[t] * 4
\* a creating call of thread t has passed its two stores (lines 147-152)
CreatingCallPublished(t) == upc[t] = "write" /\ prevBuf[t] = None

\* C15: Absent -> Present.  Both fields are absent until the first call; both
\* are present once a creating call (the first call is one) has passed its
\* stores, and from then on; and no step of any interleaving takes a present
\* buffer or a present bind group back to absent
C15_AbsentThenPresent ==
    /\ [](uploads = 0 =>
            animated_block_buffer = None /\ animated_block_bind_group = None)
    /\ []((\/ \E t \in UploadThreads : CreatingCallPublished(t)
           \/ \E k \in DOMAIN animWrites : animWrites[k].prev = None) =>
            animated_block_buffer # None /\ animated_block_bind_group # None)
    /\ [][/\ animated_block_buffer # None => animated_block_buffer' # None
          /\ animated_block_bind_group # None => animated_block_bind_group' # None]_vars

\* C15 witness: two overlapping creating calls and a later reusing call have
\* all completed, and the resource is present
C15_Witness ==
    /\ UploadsAtRest
    /\ uploads = MaxUploads
    /\ Len(bufSize) = 2
    /\ \E k \in DOMAIN animWrites : animWrites[k].prev # None
    /\ animated_block_buffer # None
    /\ animated_block_bind_group # None
(* ------------- claims: concurrent calls of submit_chunk_updates ------- *)
\* the invocation of thread t is between taking the receiver and returning
Draining(t) == spc[t] \in {"drain", "lockStorage", "replace", "write", "done"}

\* C17: drains of concurrent invocations exclude each other, the draining
\* invocation holding the receiver mutex from its first receive to the end of
\* its last message; every message sent is queued, in hand, or applied, and
\* applied at most once; the messages of one producer are applied in the
\* order it sent them, whichever invocations apply them
C17_ConcurrentDrainsExclusive ==
    /\ \A t \in SubmitThreads : Draining(t) => receiverLock = Some(t)
    /\ \A t, u \in SubmitThreads : (Draining(t) /\ Draining(u)) => t = u
    /\ \A t \in SubmitThreads : cur[t] # None => Draining(t)
    /\ AppliedIds \cup InHandIds \cup QueuedIds = 1..sent
    /\ \A j, k \in DOMAIN applied : applied[j].id = applied[k].id => j = k
    /\ \A k \in DOMAIN applied :
          /\ applied[k].id \notin QueuedIds
          /\ applied[k].id \in InHandIds =>
                \E t \in SubmitThreads :
                    /\ spc[t] = "write"
                    /\ Unwrap(cur[t]).id = applied[k].id
                    /\ applied[k].by = t
                    /\ k = Len(applied)
    /\ \A j, k \in DOMAIN applied :
          (j < k /\ applied[j].prod = applied[k].prod) =>
              applied[j].id < applied[k].id

\* C17 witness: two messages of one producer were applied by two different
\* invocations while the other thread was waiting for, or had held, the mutex
C17_Witness ==
    /\ Len(applied) = 2
    /\ applied[1].prod = applied[2].prod
    /\ applied[1].by # applied[2].by
    /\ \E t \in SubmitThreads : spc[t] = "lockReceiver"
    /\ \E t \in SubmitThreads : Draining(t)
(* ------------------- claims: the write of an upload ------------------- *)
\* C18: the write at the end of an upload never finds the buffer absent:
\* every thread about to write sees a published buffer, and every write
\* issued, under any interleaving of calls and readers, had a buffer to unwrap
C18_WriteFindsBuffer ==
    /\ \A t \in UploadThreads : upc[t] = "write" => animated_block_buffer # None
    /\ \A k \in DOMAIN animWrites : animWrites[k].buf # None

\* C18 witness: a call that found the buffer of another call, still in the
\* middle of publishing, has issued its write
C18_Witness ==
    \E k \in DOMAIN animWrites :
        /\ animWrites[k].prev # None
        /\ animWrites[k].buf # None
        /\ \E t \in UploadThreads :
              /\ t # animWrites[k].thread
              /\ upc[t] = "storeBind"
              /\ rdpc # "idle"
(* ---------------------- claims: the lock nesting ---------------------- *)
\* C19: no invocation of submit_chunk_updates is stuck on a lock: with
\* producers that send finitely often, readers that release the read lock and
\* other invocations competing for the receiver, every invocation that starts
\* returns
C19_EveryDrainCompletes ==
    \A t \in SubmitThreads : (spc[t] # "idle") ~> (spc[t] = "idle")

\* C19 witness: one invocation waits for the write lock behind a reader while
\* the other waits for the receiver mutex and a message is still queued
C19_Witness ==
    /\ \E t \in SubmitThreads : spc[t] = "lockStorage"
    /\ \E t \in SubmitThreads : spc[t] = "lockReceiver"
    /\ drawpc = "reading"
    /\ queue # <<>>
====
